---- MODULE Spec2Model ----
(***************************************************************************)
(* Model of src/AIChat.py: the streaming worker (AIRequestThread), the     *)
(* coordinator state kept by ChatWindow (current_conversation_id,          *)
(* _request_conversation_id, current_ai_content, current_ai_widget,        *)
(* api_worker), the conversation store (ChatWindow.conversations) and its  *)
(* persistence (save_conversations / load_conversations).                  *)
(*                                                                         *)
(* Texts are sequences of one-character strings.  Conversation ids stand   *)
(* for uuid4 values: they are allocated from a counter and never reused.   *)
(* The worker thread runs concurrently with the GUI thread; its signals    *)
(* reach the GUI thread through Qt's queue of posted events (queue).       *)
(* Attachments are not modelled: every send is a text-only send.           *)
(***************************************************************************)
EXTENDS Integers, Sequences, FiniteSets, TLC

\* ---------------------------------------------------------------- bounds
MaxSends == 2        \* worker threads started per process run
MaxChunks == 2       \* chunks with content one response stream yields
MaxConvs == 2        \* conversation ids ever allocated

\* ---------------------------------------------------------------- values
NoConv == 0          \* None, as a conversation id
NoWorker == 0        \* None, as api_worker
NoWidget == 0        \* None, as current_ai_widget
\* File contents: kind says whether the path exists.
NoFile == [kind |-> "nofile", version |-> 0, conversations |-> <<>>]

BT == "~"          \* stands for the backtick character
NL == "\n"
Fence == <<BT, BT, BT>>
\* delta.content of the k-th chunk with content that a stream yields.
delta_at(k) == IF k % 2 = 1 THEN <<"H">> ELSE Fence
UserTexts == {<<"q">>}                     \* stripped, non-empty inputs
\* What the input box can hold: nothing, blanks, and texts with blanks around.
InputTexts == {<<>>, <<" ">>, <<"q">>, <<" ", "q", NL>>}
RenameTitles == {<<"R">>}
Digits == <<"1", "2", "3", "4", "5", "6", "7", "8", "9">>

VARIABLES
    conversations,            \* self.conversations: id -> [title, messages]
    current_conversation_id,  \* self.current_conversation_id
    request_conversation_id,  \* self._request_conversation_id
    api_worker,               \* self.api_worker: index into workers, or NoWorker
    current_ai_content,       \* self.current_ai_content
    current_ai_widget,        \* self.current_ai_widget: index into view, or NoWidget
    send_enabled,             \* self.send_btn.isEnabled()
    save_timer,               \* self._save_timer is active
    view,                     \* the MessageWidgets of messages_layout, in order
    history_file,             \* content of HISTORY_FILE
    temp_file,                \* content of HISTORY_FILE + ".tmp"
    main_pc,                  \* position of the GUI thread inside save_conversations
    closing,                  \* the running save was called by closeEvent
    closed,                   \* closeEvent has accepted the close
    workers,                  \* the AIRequestThread objects created, in order
    queue,                    \* queued signal emissions not yet delivered
    next_id,                  \* next fresh conversation id
    undisturbed,              \* history: no cancel, switch or close since the
                              \* last send_message
    len_before_send,          \* history: message count when the last send_message began
    dialogs,                  \* on_api_error calls waiting in QMessageBox.critical
    settings,                 \* self.api_key, self.base_url, self.model
    input_edit,               \* text in the input box
    config_warning,           \* history: the last send_message call ended in
                              \* the warning about the settings
    widget                    \* one assistant MessageWidget: its content and
                              \* what its layout shows

vars == <<conversations, current_conversation_id, request_conversation_id,
          api_worker, current_ai_content, current_ai_widget, send_enabled,
          save_timer, view, history_file, temp_file, main_pc, closing, closed,
          workers, queue, next_id, undisturbed, len_before_send, dialogs,
          settings, input_edit, config_warning, widget>>

\* ---------------------------------------------------------------- text
\* str.count of the triple-backtick marker: non-overlapping occurrences,
\* scanning left to right.
RECURSIVE CountFrom(_, _)
CountFrom(t, i) ==
    IF i + 2 > Len(t) THEN 0
    ELSE IF SubSeq(t, i, i + 2) = Fence THEN 1 + CountFrom(t, i + 3)
    ELSE CountFrom(t, i + 1)

has_unclosed_code_block(content) == CountFrom(content, 1) % 2 = 1

\* finalize_content without the test of _has_unclosed_code_block.
finalize_content_unconditional(content) ==
    IF content = <<>> THEN content
    ELSE content \o <<NL>> \o Fence

\* The text MessageWidget.finalize_content leaves in self.content.
finalize_content(content) ==
    IF content = <<>> THEN content
    ELSE IF has_unclosed_code_block(content) THEN content \o <<NL>> \o Fence
    ELSE content

\* str.strip(): whitespace is taken off both ends.
Whitespace == {" ", NL}
RECURSIVE lstrip(_)
lstrip(t) == IF t # <<>> /\ Head(t) \in Whitespace THEN lstrip(Tail(t)) ELSE t
RECURSIVE rstrip(_)
rstrip(t) ==
    IF t # <<>> /\ t[Len(t)] \in Whitespace
    THEN rstrip(SubSeq(t, 1, Len(t) - 1))
    ELSE t
strip(t) == rstrip(lstrip(t))

\* str.find from position i (1-based): the first position of c, or 0.
RECURSIVE FindChar(_, _, _)
FindChar(t, c, i) ==
    IF i > Len(t) THEN 0
    ELSE IF t[i] = c THEN i
    ELSE FindChar(t, c, i + 1)

\* urlparse(url).scheme and .netloc: the scheme is what precedes the first
\* colon if that is letters only; the host follows "//" up to the next slash.
Letters == {"h", "s"}
url_scheme_end(u) ==
    LET i == FindChar(u, ":", 1)
    IN  IF i > 1 /\ \A k \in 1..(i - 1) : u[k] \in Letters THEN i ELSE 0
url_scheme(u) == SubSeq(u, 1, url_scheme_end(u) - 1)
url_netloc(u) ==
    LET r == SubSeq(u, url_scheme_end(u) + 1, Len(u))
        j == FindChar(r, "/", 3)
    IN  IF Len(r) >= 2 /\ r[1] = "/" /\ r[2] = "/"
        THEN SubSeq(r, 3, IF j = 0 THEN Len(r) ELSE j - 1)
        ELSE <<>>

\* validate_api_settings that asks the base URL for a scheme only.
validate_api_settings_no_host(st) ==
    /\ strip(st.api_key) # <<>>
    /\ strip(st.base_url) # <<>>
    /\ url_scheme(strip(st.base_url)) # <<>>
    /\ strip(st.model) # <<>>

\* validate_api_settings: the key, the base URL and the model are not blank
\* and the base URL has a scheme and a host.
validate_api_settings(st) ==
    /\ strip(st.api_key) # <<>>
    /\ strip(st.base_url) # <<>>
    /\ url_scheme(strip(st.base_url)) # <<>>
    /\ url_netloc(strip(st.base_url)) # <<>>
    /\ strip(st.model) # <<>>

\* Settings saved by an earlier run, the defaults of a first launch, and what
\* the settings dialog can be left with: one field changed at a time.
ValidSettings ==
    [api_key |-> <<"k">>, base_url |-> <<"s", ":", "/", "/", "h">>,
     model |-> <<"m">>]
DefaultSettings == [api_key |-> <<>>, base_url |-> <<>>, model |-> <<"m">>]
Blank == {<<>>, <<" ">>}
BaseUrls ==
    Blank \cup {<<"h">>, <<"s", ":", "/", "/">>, <<"/", "/", "h">>,
                <<"s", ":", "h">>, <<" ", "s", ":", "/", "/", "h", "/", "h">>}
SettingsChoices ==
    {ValidSettings, DefaultSettings}
    \cup {[ValidSettings EXCEPT !.api_key = x] : x \in Blank}
    \cup {[ValidSettings EXCEPT !.base_url = x] : x \in BaseUrls}
    \cup {[ValidSettings EXCEPT !.model = x] : x \in Blank}

TitleLimit == 20

\* new_title = display_text[:20] + ('...' if len(display_text) > 20 else '')
derive_title(display_text) ==
    IF Len(display_text) > TitleLimit
    THEN SubSeq(display_text, 1, TitleLimit) \o <<".", ".", ".">>
    ELSE display_text

\* f'新对话 {n}'
default_title(n) == <<"N", Digits[n]>>

\* ---------------------------------------------------------------- helpers
Idle == "idle"
Final == {"ended", "stopped", "failed", "killed"}

\* QThread.isRunning(): true from start() until run() has returned.
isRunning(w) == w.pc \notin Final

\* AIRequestThread.__init__ followed by start(); user_messages is the list
\* object of conversation conv (the reference, not a copy).
new_worker(conv) ==
    [pc |-> "start", is_running |-> TRUE, connected |-> TRUE, conv |-> conv,
     full_content |-> <<>>, nchunks |-> 0, chunk |-> <<>>, switched |-> FALSE]

\* self.user_messages of worker s as run() reads it when it builds
\* full_messages: the list object of the conversation, whatever it holds by
\* then (defined while the conversation is in the store).
user_messages(s) == conversations[workers[s].conv].messages

\* AIRequestThread.stop()
stop(w) == [w EXCEPT !.is_running = FALSE]

\* The three disconnect() calls of _cancel_current_request.
disconnect(w) == [w EXCEPT !.connected = FALSE]

\* Signal.emit through a queued connection: posted only while connected.
emit(q, s, sig, arg) ==
    IF workers[s].connected THEN Append(q, [s |-> s, sig |-> sig, arg |-> arg])
    ELSE q

RemoveAt(seq, i) == SubSeq(seq, 1, i - 1) \o SubSeq(seq, i + 1, Len(seq))

Max(S) == CHOOSE x \in S : \A y \in S : y <= x

\* The document json.dump writes and json.load reads back.
document(convs) == [kind |-> "doc", version |-> 1, conversations |-> convs]

\* load_conversation_messages: one MessageWidget per stored message.
load_conversation_messages(convs, c) ==
    [i \in 1..Len(convs[c].messages) |->
        [role |-> convs[c].messages[i].role,
         content |-> convs[c].messages[i].content]]

\* History: the active conversation changed, so every existing session is old.
mark_switched(ws) == [s \in DOMAIN ws |-> [ws[s] EXCEPT !.switched = TRUE]]

\* ---------------------------------------------------------------- MessageWidget
\* Position of the first triple-backtick marker in t at or after i, or 0.
RECURSIVE FindFence(_, _)
FindFence(t, i) ==
    IF i + 2 > Len(t) THEN 0
    ELSE IF SubSeq(t, i, i + 2) = Fence THEN i
    ELSE FindFence(t, i + 1)

NoMatch == [start |-> 0]

\* re.compile(code_pattern).match(text, i) for the pattern
\* ```([^\n]*)\n([\s\S]*?)``` : the marker at i, group 1 up to the first
\* newline (greedy, it cannot pass a newline), group 2 up to the first marker
\* after that newline (lazy). "end" is the position after the match.
match_at(t, i) ==
    IF i + 2 > Len(t) \/ SubSeq(t, i, i + 2) # Fence THEN NoMatch
    ELSE LET nl == FindChar(t, NL, i + 3)
             close == IF nl = 0 THEN 0 ELSE FindFence(t, nl + 1)
         IN  IF close = 0 THEN NoMatch
             ELSE [start |-> i,
                   group1 |-> SubSeq(t, i + 3, nl - 1),
                   group2 |-> SubSeq(t, nl + 1, close - 1),
                   end |-> close + 3]

\* The next match of re.finditer at or after position i: the leftmost start.
RECURSIVE search(_, _)
search(t, i) ==
    IF i > Len(t) THEN NoMatch
    ELSE IF match_at(t, i) # NoMatch THEN match_at(t, i)
    ELSE search(t, i + 1)

DefaultLanguage == <<"c", "o", "d", "e">>

\* The loop of _split_by_regex and the text after the last match.
RECURSIVE split_from(_, _, _)
split_from(t, last_end, result) ==
    LET m == search(t, last_end) IN
    IF m = NoMatch
    THEN LET remaining == strip(SubSeq(t, last_end, Len(t)))
         IN  IF remaining # <<>>
             THEN Append(result, [type |-> "text", content |-> remaining])
             ELSE result
    ELSE LET plain_text == strip(SubSeq(t, last_end, m.start - 1))
             r1 == IF plain_text # <<>>
                   THEN Append(result, [type |-> "text", content |-> plain_text])
                   ELSE result
             lang == IF strip(m.group1) # <<>> THEN strip(m.group1)
                     ELSE DefaultLanguage
             r2 == IF strip(m.group2) # <<>>
                   THEN Append(r1, [type |-> "code", language |-> lang,
                                    content |-> m.group2])
                   ELSE r1
         IN  split_from(t, m.end, r2)

\* MarkdownParser._split_by_regex
split_by_regex(text) ==
    LET result == split_from(text, 1, <<>>) IN
    IF result # <<>> THEN result
    ELSE <<[type |-> "text", content |-> text]>>

\* MarkdownParser.split_content where mistune or pygments is not installed
\* (MARKDOWN_LIBS_AVAILABLE is False).
split_content(text) == split_by_regex(text)

\* process_inline_code, first replace: every marker becomes a span that shows
\* the marker; the other characters stay. (The alphabet of the texts has no
\* "&", "<", ">" and no "*", so the escapes and the bold and italic
\* substitutions leave them as they are.)
RECURSIVE fence_spans(_, _)
fence_spans(t, i) ==
    IF i > Len(t) THEN <<>>
    ELSE IF i + 2 <= Len(t) /\ SubSeq(t, i, i + 2) = Fence
         THEN <<[span |-> "marker", text |-> Fence]>> \o fence_spans(t, i + 3)
         ELSE <<[span |-> "none", text |-> <<t[i]>>]>> \o fence_spans(t, i + 1)

IsBacktick(item) == item.span = "none" /\ item.text = <<BT>>

\* Index of the first item at or after k that holds a backtick, or 0.
RECURSIVE NextBacktick(_, _)
NextBacktick(items, k) ==
    IF k > Len(items) THEN 0
    ELSE IF items[k].span = "marker" \/ IsBacktick(items[k]) THEN k
    ELSE NextBacktick(items, k + 1)

RECURSIVE JoinText(_)
JoinText(items) ==
    IF items = <<>> THEN <<>> ELSE Head(items).text \o JoinText(Tail(items))

\* process_inline_code, the substitution (?<!`)`(?!`)([^`]+)`(?!`): a single
\* backtick, characters without backtick, a single backtick.
RECURSIVE inline_spans(_, _)
inline_spans(items, k) ==
    IF k > Len(items) THEN <<>>
    ELSE LET j == NextBacktick(items, k + 1)
             opens == /\ IsBacktick(items[k])
                      /\ (k = 1 \/ ~IsBacktick(items[k - 1]))
                      /\ j > k + 1
                      /\ IsBacktick(items[j])
                      /\ (j = Len(items) \/ ~IsBacktick(items[j + 1]))
         IN  IF opens
             THEN <<[span |-> "inline",
                     text |-> JoinText(SubSeq(items, k + 1, j - 1))]>>
                    \o inline_spans(items, j + 1)
             ELSE <<items[k]>> \o inline_spans(items, k + 1)

\* text.replace('\n', '<br>')
line_breaks(items) ==
    [k \in DOMAIN items |->
        [items[k] EXCEPT !.text =
            [n \in DOMAIN items[k].text |->
                IF items[k].text[n] = NL THEN "<br>" ELSE items[k].text[n]]]]

\* process_inline_code: the spans of the HTML given to the QTextBrowser.
process_inline_code(text) ==
    line_breaks(inline_spans(fence_spans(text, 1), 1))

\* parse_content: the widgets added to the layout, a CodeBlockWidget for a
\* code segment and a QTextBrowser for a text segment, blank ones left out.
RECURSIVE add_segments(_)
add_segments(segments) ==
    IF segments = <<>> THEN <<>>
    ELSE LET segment == Head(segments)
             added ==
                 IF strip(segment.content) = <<>> THEN <<>>
                 ELSE IF segment.type = "code"
                 THEN <<[type |-> "code", language |-> segment.language,
                         content |-> segment.content]>>
                 ELSE <<[type |-> "text",
                         html |-> process_inline_code(segment.content)]>>
         IN  added \o add_segments(Tail(segments))

parse_content(content) ==
    IF content = <<>> THEN <<>> ELSE add_segments(split_content(content))

\* MessageWidget("assistant", content): setup_ui calls parse_content on the
\* content as it is. "given" and "mode" are history: the text the widget was
\* given last, and which of the three renderings it shows.
MessageWidget(content) ==
    [content |-> content,
     layout |-> parse_content(content),
     cached_text_browser |-> FALSE,
     given |-> content,
     mode |-> "stored"]

\* ---------------------------------------------------------------- Init
\* ChatWindow.__init__ on first launch: no history file, so
\* load_conversations() returns False and create_new_conversation() runs.
InitState ==
    /\ conversations = (1 :> [title |-> default_title(1), messages |-> <<>>])
    /\ current_conversation_id = 1
    /\ request_conversation_id = NoConv
    /\ api_worker = NoWorker
    /\ current_ai_content = <<>>
    /\ current_ai_widget = NoWidget
    /\ send_enabled = TRUE
    /\ save_timer = TRUE
    /\ view = <<>>
    /\ history_file = NoFile
    /\ temp_file = NoFile
    /\ main_pc = Idle
    /\ closing = FALSE
    /\ closed = FALSE
    /\ workers = <<>>
    /\ queue = <<>>
    /\ next_id = 2
    /\ undisturbed = FALSE
    /\ len_before_send = 0
    /\ dialogs = 0
    /\ input_edit = <<>>
    /\ config_warning = FALSE
    /\ widget = MessageWidget(<<>>)

\* A launch without a history file, with settings saved by an earlier run.
Init ==
    /\ InitState
    /\ settings = ValidSettings

\* ---------------------------------------------------------------- worker thread
\* run(), lines 561-579: create the client and open the stream; any exception
\* goes to the except clause, which emits error_occurred.
WorkerOpen(s) ==
    /\ s \in DOMAIN workers
    /\ workers[s].pc = "start"
    /\ \E ok \in BOOLEAN :
        IF ok
        THEN /\ workers' = [workers EXCEPT ![s].pc = "loop"]
             /\ queue' = queue
        ELSE /\ workers' = [workers EXCEPT ![s].pc = "failed"]
             /\ queue' = emit(queue, s, "error_occurred", <<>>)
    /\ UNCHANGED <<conversations, current_conversation_id, request_conversation_id,
                   api_worker, current_ai_content, current_ai_widget, send_enabled,
                   save_timer, view, history_file, temp_file, main_pc, closing,
                   closed, next_id, undisturbed, len_before_send, dialogs,
                   settings, input_edit, config_warning, widget>>

\* One iteration of "for chunk in stream" up to the emit: the stream yields a
\* chunk whose delta.content is d (<<>> for a chunk without content, which
\* changes nothing); the _is_running test comes first, then
\* full_content += content.  nchunks counts the chunks with content.
WorkerChunk(s) ==
    /\ s \in DOMAIN workers
    /\ workers[s].pc = "loop"
    /\ workers[s].nchunks < MaxChunks
    /\ \E d \in {delta_at(workers[s].nchunks + 1), <<>>} :
        IF ~workers[s].is_running
        THEN \* break, then finished_stream.emit()
             /\ workers' = [workers EXCEPT ![s].pc = "stopped"]
             /\ queue' = emit(queue, s, "finished_stream", <<>>)
        ELSE IF d = <<>>
        THEN UNCHANGED <<workers, queue>>
        ELSE /\ workers' = [workers EXCEPT ![s].nchunks = @ + 1,
                                           ![s].full_content = @ \o d,
                                           ![s].chunk = d,
                                           ![s].pc = "emit"]
             /\ queue' = queue
    /\ UNCHANGED <<conversations, current_conversation_id, request_conversation_id,
                   api_worker, current_ai_content, current_ai_widget, send_enabled,
                   save_timer, view, history_file, temp_file, main_pc, closing,
                   closed, next_id, undisturbed, len_before_send, dialogs,
                   settings, input_edit, config_warning, widget>>

\* self.stream_chunk.emit(content), line 587.
WorkerEmit(s) ==
    /\ s \in DOMAIN workers
    /\ workers[s].pc = "emit"
    /\ workers' = [workers EXCEPT ![s].pc = "loop", ![s].chunk = <<>>]
    /\ queue' = emit(queue, s, "stream_chunk", workers[s].chunk)
    /\ UNCHANGED <<conversations, current_conversation_id, request_conversation_id,
                   api_worker, current_ai_content, current_ai_widget, send_enabled,
                   save_timer, view, history_file, temp_file, main_pc, closing,
                   closed, next_id, undisturbed, len_before_send, dialogs,
                   settings, input_edit, config_warning, widget>>

\* The stream is exhausted: the for loop ends and finished_stream is emitted.
WorkerEnd(s) ==
    /\ s \in DOMAIN workers
    /\ workers[s].pc = "loop"
    /\ workers' = [workers EXCEPT ![s].pc = "ended"]
    /\ queue' = emit(queue, s, "finished_stream", <<>>)
    /\ UNCHANGED <<conversations, current_conversation_id, request_conversation_id,
                   api_worker, current_ai_content, current_ai_widget, send_enabled,
                   save_timer, view, history_file, temp_file, main_pc, closing,
                   closed, next_id, undisturbed, len_before_send, dialogs,
                   settings, input_edit, config_warning, widget>>

\* WorkerFail with the emit of finished_stream placed after the try
\* statement, where the except clause also leads.
WorkerFail_then_finished(s) ==
    /\ s \in DOMAIN workers
    /\ workers[s].pc = "loop"
    /\ workers' = [workers EXCEPT ![s].pc = "failed"]
    /\ queue' = emit(emit(queue, s, "error_occurred", <<>>),
                     s, "finished_stream", <<>>)
    /\ UNCHANGED <<conversations, current_conversation_id, request_conversation_id,
                   api_worker, current_ai_content, current_ai_widget, send_enabled,
                   save_timer, view, history_file, temp_file, main_pc, closing,
                   closed, next_id, undisturbed, len_before_send, dialogs,
                   settings, input_edit, config_warning, widget>>

\* Reading the next chunk raises (timeout, connection drop): error_occurred.
WorkerFail(s) ==
    /\ s \in DOMAIN workers
    /\ workers[s].pc = "loop"
    /\ workers' = [workers EXCEPT ![s].pc = "failed"]
    /\ queue' = emit(queue, s, "error_occurred", <<>>)
    /\ UNCHANGED <<conversations, current_conversation_id, request_conversation_id,
                   api_worker, current_ai_content, current_ai_widget, send_enabled,
                   save_timer, view, history_file, temp_file, main_pc, closing,
                   closed, next_id, undisturbed, len_before_send, dialogs,
                   settings, input_edit, config_warning, widget>>

\* closeEvent: wait(3000) ran out and terminate() kills the thread.
WorkerTerminate(s) ==
    /\ closed
    /\ s = api_worker
    /\ s \in DOMAIN workers
    /\ isRunning(workers[s])
    /\ workers' = [workers EXCEPT ![s].pc = "killed"]
    /\ UNCHANGED <<conversations, current_conversation_id, request_conversation_id,
                   api_worker, current_ai_content, current_ai_widget, send_enabled,
                   save_timer, view, history_file, temp_file, main_pc, closing,
                   closed, queue, next_id, undisturbed, len_before_send, dialogs,
                   settings, input_edit, config_warning, widget>>

\* ---------------------------------------------------------------- coordinator
\* save_conversations() with delay=True: the single-shot timer is (re)started.
save_conversations_delayed == save_timer' = TRUE

\* The worker list after _cancel_current_request: api_worker is stopped and
\* disconnected only if it is set and still running.
cancel_workers ==
    IF api_worker # NoWorker /\ isRunning(workers[api_worker])
    THEN [workers EXCEPT ![api_worker] = disconnect(stop(@))]
    ELSE workers

\* _cancel_current_request, apart from the worker list.
cancel_current_request ==
    /\ api_worker' = IF api_worker # NoWorker /\ isRunning(workers[api_worker])
                     THEN NoWorker ELSE api_worker
    /\ current_ai_content' = <<>>
    /\ current_ai_widget' = NoWidget
    /\ request_conversation_id' = NoConv
    /\ send_enabled' = TRUE

\* send_message when the input box holds the text typed: nothing happens if
\* validate_api_settings fails (a warning is shown) or the stripped text is
\* empty; otherwise the box is cleared, the user message is stored and shown
\* and a worker is started.
send_message(typed) ==
    LET user_text == strip(typed)
        c == current_conversation_id
        msgs == Append(conversations[c].messages,
                       [role |-> "user", content |-> user_text])
        title == IF Len(msgs) = 1 THEN derive_title(user_text)
                 ELSE conversations[c].title
        view1 == Append(view, [role |-> "user", content |-> user_text])
    IN  /\ main_pc = Idle
        /\ ~closed
        /\ dialogs = 0
        /\ IF ~validate_api_settings(settings) \/ user_text = <<>>
           THEN /\ input_edit' = typed
                /\ config_warning' = ~validate_api_settings(settings)
                /\ UNCHANGED <<conversations, send_enabled, current_ai_content,
                               view, current_ai_widget, request_conversation_id,
                               workers, api_worker, undisturbed, len_before_send>>
           ELSE /\ Len(workers) < MaxSends
                /\ input_edit' = <<>>
                /\ config_warning' = FALSE
                /\ conversations' = [conversations EXCEPT ![c] =
                                        [title |-> title, messages |-> msgs]]
                /\ send_enabled' = FALSE
                /\ current_ai_content' = <<>>
                /\ view' = Append(view1, [role |-> "assistant", content |-> <<>>])
                /\ current_ai_widget' = Len(view1) + 1
                /\ request_conversation_id' = c
                /\ workers' = Append(workers, new_worker(c))
                /\ api_worker' = Len(workers) + 1
                /\ undisturbed' = TRUE
                /\ len_before_send' = Len(conversations[c].messages)
        /\ UNCHANGED <<current_conversation_id, save_timer, history_file,
                       temp_file, main_pc, closing, closed, queue, next_id,
                       dialogs, settings, widget>>

\* The user types a text into the empty input box and clicks the send
\* button (send_btn.clicked): only an enabled button can be clicked.
SendButton ==
    /\ send_enabled
    /\ input_edit = <<>>
    /\ \E t \in UserTexts : send_message(t)

\* The user types a text into the empty input box and presses Return:
\* eventFilter calls send_message directly.
SendEnter ==
    /\ input_edit = <<>>
    /\ \E t \in UserTexts : send_message(t)

\* The user edits the text of the input box.
type_input(t) ==
    /\ main_pc = Idle
    /\ ~closed
    /\ dialogs = 0
    /\ t # input_edit
    /\ input_edit' = t
    /\ UNCHANGED <<conversations, current_conversation_id, request_conversation_id,
                   api_worker, current_ai_content, current_ai_widget, send_enabled,
                   save_timer, view, history_file, temp_file, main_pc, closing,
                   closed, workers, queue, next_id, undisturbed, len_before_send,
                   dialogs, settings, config_warning, widget>>

\* open_settings with the dialog accepted: the three settings are replaced.
open_settings(st) ==
    /\ main_pc = Idle
    /\ ~closed
    /\ dialogs = 0
    /\ st # settings
    /\ settings' = st
    /\ UNCHANGED <<conversations, current_conversation_id, request_conversation_id,
                   api_worker, current_ai_content, current_ai_widget, send_enabled,
                   save_timer, view, history_file, temp_file, main_pc, closing,
                   closed, workers, queue, next_id, undisturbed, len_before_send,
                   dialogs, input_edit, config_warning, widget>>

\* The send button is clicked, or Return is pressed, with the input box as
\* it is.
ClickSend ==
    /\ send_enabled
    /\ send_message(input_edit)

PressReturn == send_message(input_edit)

\* on_stream_chunk(chunk), without the queue.
on_stream_chunk(chunk) ==
    IF request_conversation_id # current_conversation_id
    THEN UNCHANGED <<current_ai_content, current_ai_widget, view>>
    ELSE /\ current_ai_content' = current_ai_content \o chunk
         /\ IF current_ai_widget # NoWidget
            THEN /\ view' = [view EXCEPT ![current_ai_widget].content =
                                            current_ai_content \o chunk]
                 /\ current_ai_widget' = current_ai_widget
            ELSE /\ view' = Append(view, [role |-> "assistant",
                                          content |-> current_ai_content \o chunk])
                 /\ current_ai_widget' = Len(view) + 1

\* on_stream_finished without the test "if self.current_ai_content".
on_stream_finished_unguarded ==
    IF request_conversation_id # current_conversation_id
    THEN /\ request_conversation_id' = NoConv
         /\ UNCHANGED <<conversations, current_ai_content, current_ai_widget,
                        send_enabled, save_timer, view>>
    ELSE /\ conversations' =
              [conversations EXCEPT ![current_conversation_id].messages =
                  Append(@, [role |-> "assistant",
                             content |-> current_ai_content])]
         /\ view' = IF current_ai_widget # NoWidget
                    THEN [view EXCEPT ![current_ai_widget].content =
                                         finalize_content(@)]
                    ELSE view
         /\ current_ai_content' = <<>>
         /\ current_ai_widget' = NoWidget
         /\ request_conversation_id' = NoConv
         /\ send_enabled' = TRUE
         /\ save_conversations_delayed

\* on_stream_finished, without the queue.
on_stream_finished ==
    IF request_conversation_id # current_conversation_id
    THEN /\ request_conversation_id' = NoConv
         /\ UNCHANGED <<conversations, current_ai_content, current_ai_widget,
                        send_enabled, save_timer, view>>
    ELSE /\ IF current_ai_content # <<>>
            THEN /\ conversations' =
                      [conversations EXCEPT ![current_conversation_id].messages =
                          Append(@, [role |-> "assistant",
                                     content |-> current_ai_content])]
                 /\ view' = IF current_ai_widget # NoWidget
                            THEN [view EXCEPT ![current_ai_widget].content =
                                                 finalize_content(@)]
                            ELSE view
            ELSE UNCHANGED <<conversations, view>>
         /\ current_ai_content' = <<>>
         /\ current_ai_widget' = NoWidget
         /\ request_conversation_id' = NoConv
         /\ send_enabled' = TRUE
         /\ save_conversations_delayed

\* on_api_error_cleanup that forgets to take the empty placeholder out of the
\* layout.
on_api_error_cleanup_keeps_placeholder ==
    /\ send_enabled' = TRUE
    /\ view' = view
    /\ current_ai_content' = <<>>
    /\ current_ai_widget' = NoWidget
    /\ request_conversation_id' = NoConv

\* on_api_error_cleanup without send_btn.setEnabled(True).
on_api_error_cleanup_stays_disabled ==
    /\ send_enabled' = send_enabled
    /\ view' = IF current_ai_widget # NoWidget /\ current_ai_content = <<>>
               THEN RemoveAt(view, current_ai_widget)
               ELSE view
    /\ current_ai_content' = <<>>
    /\ current_ai_widget' = NoWidget
    /\ request_conversation_id' = NoConv

\* on_api_error, lines 1972-1990: what the slot does once the message box
\* it opened has been dismissed.
on_api_error_cleanup ==
    /\ send_enabled' = TRUE
    /\ view' = IF current_ai_widget # NoWidget /\ current_ai_content = <<>>
               THEN RemoveAt(view, current_ai_widget)
               ELSE view
    /\ current_ai_content' = <<>>
    /\ current_ai_widget' = NoWidget
    /\ request_conversation_id' = NoConv

\* on_api_error, lines 1964-1971, without the queue: the event is ignored, or
\* QMessageBox.critical opens and runs an event loop of its own until the
\* user dismisses it.
on_api_error ==
    IF request_conversation_id # current_conversation_id
    THEN /\ request_conversation_id' = NoConv
         /\ dialogs' = dialogs
    ELSE /\ request_conversation_id' = request_conversation_id
         /\ dialogs' = dialogs + 1

\* A queued stream_chunk emission reaches its slot.
DeliverChunk ==
    /\ main_pc = Idle
    /\ queue # <<>>
    /\ Head(queue).sig = "stream_chunk"
    /\ on_stream_chunk(Head(queue).arg)
    /\ queue' = Tail(queue)
    /\ UNCHANGED <<conversations, current_conversation_id, request_conversation_id,
                   api_worker, send_enabled, save_timer, history_file, temp_file,
                   main_pc, closing, closed, workers, next_id, undisturbed,
                   len_before_send, dialogs,
                   settings, input_edit, config_warning, widget>>

\* A queued finished_stream emission reaches its slot.
DeliverFinished ==
    /\ main_pc = Idle
    /\ queue # <<>>
    /\ Head(queue).sig = "finished_stream"
    /\ on_stream_finished
    /\ queue' = Tail(queue)
    /\ UNCHANGED <<current_conversation_id, api_worker, history_file, temp_file,
                   main_pc, closing, closed, workers, next_id, undisturbed,
                   len_before_send, dialogs,
                   settings, input_edit, config_warning, widget>>

\* A queued error_occurred emission reaches its slot.
DeliverError ==
    /\ main_pc = Idle
    /\ queue # <<>>
    /\ Head(queue).sig = "error_occurred"
    /\ on_api_error
    /\ queue' = Tail(queue)
    /\ UNCHANGED <<conversations, current_conversation_id, api_worker,
                   current_ai_content, current_ai_widget, send_enabled,
                   save_timer, view, history_file, temp_file, main_pc, closing,
                   closed, workers, next_id, undisturbed, len_before_send,
                   settings, input_edit, config_warning, widget>>

\* The user dismisses the innermost message box and the on_api_error call
\* that opened it runs to its end.
ErrorDialogClosed ==
    /\ main_pc = Idle
    /\ dialogs > 0
    /\ dialogs' = dialogs - 1
    /\ on_api_error_cleanup
    /\ UNCHANGED <<conversations, current_conversation_id, api_worker, save_timer,
                   history_file, temp_file, main_pc, closing, closed, workers,
                   queue, next_id, undisturbed, len_before_send,
                   settings, input_edit, config_warning, widget>>

\* An emission queued before its signal was disconnected may be discarded
\* rather than delivered.
DropDisconnected ==
    /\ main_pc = Idle
    /\ queue # <<>>
    /\ ~workers[Head(queue).s].connected
    /\ queue' = Tail(queue)
    /\ UNCHANGED <<conversations, current_conversation_id, request_conversation_id,
                   api_worker, current_ai_content, current_ai_widget, send_enabled,
                   save_timer, view, history_file, temp_file, main_pc, closing,
                   closed, workers, next_id, undisturbed, len_before_send, dialogs,
                   settings, input_edit, config_warning, widget>>

\* ---------------------------------------------------------------- conversations
\* The conversations dict after create_new_conversation stored a new entry.
with_new_conversation(convs) ==
    [c \in DOMAIN convs \cup {next_id} |->
        IF c = next_id
        THEN [title |-> default_title(Cardinality(DOMAIN convs) + 1),
              messages |-> <<>>]
        ELSE convs[c]]

without_conversation(convs, c) == [d \in DOMAIN convs \ {c} |-> convs[d]]

\* create_new_conversation; setCurrentItem runs on_conversation_changed for
\* the new item before current_conversation_id is assigned again.
create_new_conversation ==
    /\ main_pc = Idle
    /\ ~closed
    /\ dialogs = 0
    /\ next_id <= MaxConvs
    /\ cancel_current_request
    /\ workers' = mark_switched(cancel_workers)
    /\ conversations' = with_new_conversation(conversations)
    /\ current_conversation_id' = next_id
    /\ next_id' = next_id + 1
    /\ view' = <<>>
    /\ save_conversations_delayed
    /\ undisturbed' = FALSE
    /\ UNCHANGED <<history_file, temp_file, main_pc, closing, closed, queue,
                   len_before_send, dialogs,
                   settings, input_edit, config_warning, widget>>

\* on_conversation_changed(current, previous) for the list item of conversation c.
on_conversation_changed(c) ==
    /\ main_pc = Idle
    /\ ~closed
    /\ dialogs = 0
    /\ c \in DOMAIN conversations
    /\ c # current_conversation_id
    /\ cancel_current_request
    /\ workers' = mark_switched(cancel_workers)
    /\ current_conversation_id' = c
    /\ view' = load_conversation_messages(conversations, c)
    /\ undisturbed' = FALSE
    /\ UNCHANGED <<conversations, save_timer, history_file, temp_file, main_pc,
                   closing, closed, queue, next_id, len_before_send, dialogs,
                   settings, input_edit, config_warning, widget>>

\* rename_conversation that stores a new entry holding the title alone.
rename_conversation_new_entry(c, new_title) ==
    /\ main_pc = Idle
    /\ ~closed
    /\ dialogs = 0
    /\ c \in DOMAIN conversations
    /\ conversations' = [conversations EXCEPT
                            ![c] = [title |-> new_title, messages |-> <<>>]]
    /\ save_conversations_delayed
    /\ UNCHANGED <<current_conversation_id, request_conversation_id, api_worker,
                   current_ai_content, current_ai_widget, send_enabled, view,
                   history_file, temp_file, main_pc, closing, closed, workers,
                   queue, next_id, undisturbed, len_before_send, dialogs,
                   settings, input_edit, config_warning, widget>>

\* rename_conversation(item) with an accepted, non-blank title.
rename_conversation(c, new_title) ==
    /\ main_pc = Idle
    /\ ~closed
    /\ dialogs = 0
    /\ c \in DOMAIN conversations
    /\ conversations' = [conversations EXCEPT ![c].title = new_title]
    /\ save_conversations_delayed
    /\ UNCHANGED <<current_conversation_id, request_conversation_id, api_worker,
                   current_ai_content, current_ai_widget, send_enabled, view,
                   history_file, temp_file, main_pc, closing, closed, workers,
                   queue, next_id, undisturbed, len_before_send, dialogs,
                   settings, input_edit, config_warning, widget>>

\* delete_conversation if taking the current item out of the list did not
\* make the list pick another one: the entry goes and nothing else happens.
delete_conversation_only(c) ==
    /\ main_pc = Idle
    /\ ~closed
    /\ dialogs = 0
    /\ c \in DOMAIN conversations
    /\ save_conversations_delayed
    /\ conversations' = without_conversation(conversations, c)
    /\ UNCHANGED <<current_conversation_id, request_conversation_id,
                   api_worker, current_ai_content, current_ai_widget,
                   send_enabled, view, workers, next_id, undisturbed>>
    /\ UNCHANGED <<history_file, temp_file, main_pc, closing, closed, queue,
                   len_before_send, dialogs,
                   settings, input_edit, config_warning, widget>>

\* delete_conversation(item), confirmed.  takeItem of the current item makes
\* the list pick another current item (on_conversation_changed runs for it)
\* or leaves the list empty; takeItem of another item changes nothing else.
delete_conversation(c) ==
    LET rest == without_conversation(conversations, c)
    IN  /\ main_pc = Idle
        /\ ~closed
        /\ dialogs = 0
        /\ c \in DOMAIN conversations
        /\ save_conversations_delayed
        /\ IF c # current_conversation_id
           THEN /\ conversations' = rest
                /\ UNCHANGED <<current_conversation_id, request_conversation_id,
                               api_worker, current_ai_content, current_ai_widget,
                               send_enabled, view, workers, next_id, undisturbed>>
           ELSE IF DOMAIN rest # {}
           THEN /\ conversations' = rest
                /\ \E n \in DOMAIN rest :
                     /\ current_conversation_id' = n
                     /\ view' = load_conversation_messages(rest, n)
                /\ cancel_current_request
                /\ workers' = mark_switched(cancel_workers)
                /\ undisturbed' = FALSE
                /\ UNCHANGED next_id
           ELSE /\ next_id <= MaxConvs
                /\ conversations' = with_new_conversation(rest)
                /\ current_conversation_id' = next_id
                /\ next_id' = next_id + 1
                /\ view' = <<>>
                /\ cancel_current_request
                /\ workers' = mark_switched(cancel_workers)
                /\ undisturbed' = FALSE
        /\ UNCHANGED <<history_file, temp_file, main_pc, closing, closed, queue,
                       len_before_send, dialogs,
                   settings, input_edit, config_warning, widget>>

\* clear_all_history: the request is cancelled before the question is asked.
clear_all_history(yes) ==
    /\ main_pc = Idle
    /\ ~closed
    /\ dialogs = 0
    /\ cancel_current_request
    /\ undisturbed' = FALSE
    /\ IF yes
       THEN /\ next_id <= MaxConvs
            /\ conversations' = with_new_conversation(<<>>)
            /\ current_conversation_id' = next_id
            /\ next_id' = next_id + 1
            /\ view' = <<>>
            /\ workers' = mark_switched(cancel_workers)
            /\ save_conversations_delayed
            /\ history_file' = NoFile
       ELSE /\ workers' = cancel_workers
            /\ UNCHANGED <<conversations, current_conversation_id, next_id, view,
                           save_timer, history_file>>
    /\ UNCHANGED <<temp_file, main_pc, closing, closed, queue, len_before_send, dialogs,
                   settings, input_edit, config_warning, widget>>

\* ---------------------------------------------------------------- persistence
\* closeEvent after its save: stop the worker if it is still running.
close_workers ==
    IF api_worker # NoWorker /\ isRunning(workers[api_worker])
    THEN [workers EXCEPT ![api_worker] = stop(@)]
    ELSE workers

\* save_conversations(delay=False), lines 2031-2042: the document is written
\* to the temp file.
save_write ==
    /\ temp_file' = document(conversations)
    /\ main_pc' = "remove"

\* TimerFire with a timer that was not made single-shot: it stays pending.
TimerFire_repeating ==
    /\ main_pc = Idle
    /\ ~closed
    /\ save_timer
    /\ save_timer' = TRUE
    /\ save_write
    /\ UNCHANGED <<conversations, current_conversation_id, request_conversation_id,
                   api_worker, current_ai_content, current_ai_widget, send_enabled,
                   view, history_file, closing, closed, workers, queue, next_id,
                   undisturbed, len_before_send, dialogs,
                   settings, input_edit, config_warning, widget>>

\* The save timer times out: save_conversations(delay=False) starts.  The
\* timer of a closed window does not time out before the application quits.
TimerFire ==
    /\ main_pc = Idle
    /\ ~closed
    /\ save_timer
    /\ save_timer' = FALSE
    /\ save_write
    /\ UNCHANGED <<conversations, current_conversation_id, request_conversation_id,
                   api_worker, current_ai_content, current_ai_widget, send_enabled,
                   view, history_file, closing, closed, workers, queue, next_id,
                   undisturbed, len_before_send, dialogs,
                   settings, input_edit, config_warning, widget>>

\* closeEvent: the timer is stopped and dropped, then the synchronous save
\* starts; the rest of closeEvent runs when the save returns.
closeEvent ==
    /\ main_pc = Idle
    /\ ~closed
    /\ dialogs = 0
    /\ save_timer' = FALSE
    /\ undisturbed' = FALSE
    /\ save_write
    /\ closing' = TRUE
    /\ UNCHANGED <<closed, workers>>
    /\ UNCHANGED <<conversations, current_conversation_id, request_conversation_id,
                   api_worker, current_ai_content, current_ai_widget, send_enabled,
                   view, history_file, queue, next_id, len_before_send, dialogs,
                   settings, input_edit, config_warning, widget>>

\* Lines 2044-2045: if os.path.exists(HISTORY_FILE): os.remove(HISTORY_FILE).
SaveRemove ==
    /\ main_pc = "remove"
    /\ history_file' = NoFile
    /\ main_pc' = "rename"
    /\ UNCHANGED <<conversations, current_conversation_id, request_conversation_id,
                   api_worker, current_ai_content, current_ai_widget, send_enabled,
                   save_timer, view, temp_file, closing, closed, workers, queue,
                   next_id, undisturbed, len_before_send, dialogs,
                   settings, input_edit, config_warning, widget>>

\* Line 2046: os.rename(temp_file, HISTORY_FILE); the save returns, and a
\* save called by closeEvent is followed by the rest of closeEvent.
SaveRename ==
    /\ main_pc = "rename"
    /\ history_file' = temp_file
    /\ temp_file' = NoFile
    /\ main_pc' = Idle
    /\ closing' = FALSE
    /\ closed' = (closed \/ closing)
    /\ workers' = IF closing THEN close_workers ELSE workers
    /\ UNCHANGED <<conversations, current_conversation_id, request_conversation_id,
                   api_worker, current_ai_content, current_ai_widget, send_enabled,
                   save_timer, view, queue, next_id, undisturbed, len_before_send, dialogs,
                   settings, input_edit, config_warning, widget>>

\* A history file that is not valid JSON, and a document with another
\* version tag than the one load_conversations expects.
Garbage == [kind |-> "garbage", version |-> 0, conversations |-> <<>>]
OtherVersion == 2
foreign_files(convs) ==
    {Garbage, [document(convs) EXCEPT !.version = OtherVersion]}

\* While the application is not running, something else (another release of
\* the program, a damaged disk) leaves a foreign file at the history path.
HistoryFileReplaced ==
    /\ closed
    /\ main_pc = Idle
    /\ \E f \in foreign_files(conversations) :
          /\ f # history_file
          /\ history_file' = f
    /\ UNCHANGED <<conversations, current_conversation_id, request_conversation_id,
                   api_worker, current_ai_content, current_ai_widget, send_enabled,
                   save_timer, view, temp_file, main_pc, closing, closed, workers,
                   queue, next_id, undisturbed, len_before_send, dialogs,
                   settings, input_edit, config_warning, widget>>

\* loadable without the test of the version tag.
loadable_any_version(f) ==
    /\ f.kind = "doc"
    /\ DOMAIN f.conversations # {}

\* load_conversations() returns True: a version 1 document with conversations.
loadable(f) ==
    /\ f.kind = "doc"
    /\ f.version = 1
    /\ DOMAIN f.conversations # {}

\* The process ends at any point (a crash, or exit after the close) and the
\* application is started again: ChatWindow.__init__ with load_conversations,
\* and create_new_conversation when that returns False.  The list is sorted
\* by created_at, newest first, and row 0 becomes the current item.
Restart ==
    /\ IF loadable(history_file)
       THEN /\ conversations' = history_file.conversations
            /\ current_conversation_id' = Max(DOMAIN history_file.conversations)
            /\ view' = load_conversation_messages(
                          history_file.conversations,
                          Max(DOMAIN history_file.conversations))
            /\ save_timer' = FALSE
            /\ UNCHANGED next_id
       ELSE /\ next_id <= MaxConvs
            /\ conversations' = with_new_conversation(<<>>)
            /\ current_conversation_id' = next_id
            /\ next_id' = next_id + 1
            /\ view' = <<>>
            /\ save_conversations_delayed
    /\ request_conversation_id' = NoConv
    /\ api_worker' = NoWorker
    /\ current_ai_content' = <<>>
    /\ current_ai_widget' = NoWidget
    /\ send_enabled' = TRUE
    /\ main_pc' = Idle
    /\ closing' = FALSE
    /\ closed' = FALSE
    /\ dialogs' = 0
    /\ settings' = settings
    /\ input_edit' = <<>>
    /\ config_warning' = FALSE
    /\ workers' = <<>>
    /\ queue' = <<>>
    /\ undisturbed' = FALSE
    /\ len_before_send' = 0
    /\ UNCHANGED <<history_file, temp_file, widget>>

\* ---------------------------------------------------------------- specifications
\* One process run seen from the coordinator: the user's operations, the
\* worker threads, the delivery of their signals, and the close.
Next ==
    \/ SendButton
    \/ SendEnter
    \/ \E s \in 1..MaxSends : WorkerOpen(s)
    \/ \E s \in 1..MaxSends : WorkerChunk(s)
    \/ \E s \in 1..MaxSends : WorkerEmit(s)
    \/ \E s \in 1..MaxSends : WorkerEnd(s)
    \/ \E s \in 1..MaxSends : WorkerFail(s)
    \/ DeliverChunk
    \/ DeliverFinished
    \/ DeliverError
    \/ ErrorDialogClosed
    \/ DropDisconnected
    \/ create_new_conversation
    \/ \E c \in 1..MaxConvs : on_conversation_changed(c)
    \/ \E c \in 1..MaxConvs : delete_conversation(c)
    \/ \E yes \in BOOLEAN : clear_all_history(yes)

Spec == Init /\ [][Next]_vars

\* Spec with the progress the scheduling gives: a started thread runs, its
\* stream ends or raises after finitely many chunks (the read timeout of 60 s
\* bounds every wait), the event loop delivers what is queued, and the user
\* dismisses an error box.
WorkerProgress ==
    \E s \in 1..MaxSends :
        WorkerOpen(s) \/ WorkerEmit(s) \/ WorkerEnd(s) \/ WorkerFail(s)

EventLoopProgress ==
    DeliverChunk \/ DeliverFinished \/ DeliverError \/ DropDisconnected

SpecLive ==
    /\ Spec
    /\ WF_vars(WorkerProgress)
    /\ WF_vars(EventLoopProgress)
    /\ WF_vars(ErrorDialogClosed)

\* Typing, settings and sending in one conversation, from a first launch.
InitInput ==
    /\ InitState
    /\ settings = DefaultSettings

NextInput ==
    \/ \E t \in InputTexts : type_input(t)
    \/ \E st \in SettingsChoices : open_settings(st)
    \/ ClickSend
    \/ PressReturn
    \/ \E s \in 1..MaxSends : WorkerOpen(s)
    \/ \E s \in 1..MaxSends : WorkerChunk(s)
    \/ \E s \in 1..MaxSends : WorkerEmit(s)
    \/ \E s \in 1..MaxSends : WorkerEnd(s)
    \/ \E s \in 1..MaxSends : WorkerFail(s)
    \/ DeliverChunk
    \/ DeliverFinished
    \/ DeliverError
    \/ ErrorDialogClosed

SpecInput == InitInput /\ [][NextInput]_vars

\* The store and its file across process runs: every operation that changes
\* the store or the file, the save timer, the close and restarts at any
\* point; each process run sends at most one message, answered by at most
\* one chunk with content.
NextStore ==
    \/ SendButton /\ workers = <<>>
                  /\ conversations[current_conversation_id].messages = <<>>
    \/ WorkerOpen(1)
    \/ WorkerChunk(1) /\ (workers[1].nchunks = 0 \/ ~workers[1].is_running)
    \/ WorkerEmit(1)
    \/ WorkerEnd(1)
    \/ WorkerFail(1)
    \/ WorkerTerminate(1)
    \/ DeliverChunk
    \/ DeliverFinished
    \/ DeliverError
    \/ ErrorDialogClosed
    \/ DropDisconnected
    \/ create_new_conversation
    \/ \E c \in 1..MaxConvs : on_conversation_changed(c)
    \/ \E c \in 1..MaxConvs, t \in RenameTitles : rename_conversation(c, t)
    \/ \E c \in 1..MaxConvs : delete_conversation(c)
    \/ \E yes \in BOOLEAN : clear_all_history(yes)
    \/ TimerFire
    \/ closeEvent
    \/ SaveRemove
    \/ SaveRename
    \/ HistoryFileReplaced
    \/ Restart

SpecStore == Init /\ [][NextStore]_vars

\* ---------------------------------------------------------------- one answer's widget
\* What a delta can add to the answer: a marker, a backtick, a newline, a
\* blank, a letter.
Deltas == {Fence, <<BT>>, <<NL>>, <<" ">>, <<"p">>}
MaxTextLen == 8

Others == <<conversations, current_conversation_id, request_conversation_id,
            api_worker, current_ai_content, current_ai_widget, send_enabled,
            save_timer, view, history_file, temp_file, main_pc, closing,
            closed, workers, queue, next_id, undisturbed, len_before_send,
            dialogs, settings, input_edit, config_warning>>

update_content_parsed(new_content) ==
    /\ widget' = [content |-> new_content,
                  layout |-> parse_content(new_content),
                  cached_text_browser |-> TRUE,
                  given |-> new_content,
                  mode |-> "live"]
    /\ UNCHANGED Others

\* MessageWidget.update_content and _update_text_only: the layout holds one
\* QTextBrowser, created at the first call, that shows the stripped text.
update_content(new_content) ==
    /\ widget' = [content |-> new_content,
                  layout |-> <<[type |-> "text",
                                html |-> process_inline_code(strip(new_content))]>>,
                  cached_text_browser |-> TRUE,
                  given |-> new_content,
                  mode |-> "live"]
    /\ UNCHANGED Others

\* on_stream_chunk on the widget of the answer: the placeholder that
\* send_message created, or the widget that earlier chunks have updated.
StreamChunk ==
    /\ widget.mode = "live" \/ widget = MessageWidget(<<>>)
    /\ \E delta \in Deltas :
          /\ Len(widget.given) + Len(delta) <= MaxTextLen
          /\ update_content(widget.given \o delta)

\* MessageWidget.finalize_content, called by on_stream_finished when the
\* answer is not empty: repair, then parse_content on a cleared layout.
finalize_widget ==
    /\ widget.mode = "live"
    /\ widget.content # <<>>
    /\ widget' = [content |-> finalize_content(widget.content),
                  layout |-> parse_content(finalize_content(widget.content)),
                  cached_text_browser |-> FALSE,
                  given |-> widget.given,
                  mode |-> "final"]
    /\ UNCHANGED Others

\* load_conversation_messages shows the stored answer again: that is the
\* text on_stream_finished appended, self.current_ai_content, in a new widget.
reload_message ==
    /\ widget.mode = "final"
    /\ widget' = MessageWidget(widget.given)
    /\ UNCHANGED Others

NextWidget ==
    \/ StreamChunk
    \/ finalize_widget
    \/ reload_message

SpecWidget == Init /\ [][NextWidget]_vars

\* ---------------------------------------------------------------- claims
Last(seq) == seq[Len(seq)]

\* The slot of the connected emission at the head of the queue runs in this
\* step.
Handled(sig) ==
    /\ main_pc = Idle
    /\ queue # <<>>
    /\ Head(queue).sig = sig
    /\ workers[Head(queue).s].connected
    /\ queue' = Tail(queue)
    /\ workers' = workers

\* An on_api_error call returns from its message box and runs to its end.
ErrorHandlerEnds == dialogs' = dialogs - 1

\* Some conversation's message list grows by an assistant message in this step.
GainsAssistantMessage ==
    \E c \in DOMAIN conversations \cap DOMAIN conversations' :
        /\ Len(conversations'[c].messages) > Len(conversations[c].messages)
        /\ Last(conversations'[c].messages).role = "assistant"

\* C1: once the active conversation has been switched while a session was in
\* flight, no event of that session that is delivered afterwards changes the
\* conversation store.
C1_StaleEventsLeaveStoreAlone ==
    [][(/\ main_pc = Idle
        /\ queue # <<>>
        /\ queue' = Tail(queue)
        /\ workers' = workers
        /\ workers[Head(queue).s].switched)
       => conversations' = conversations]_vars

\* C2: at most one session is active, that is, has a running worker that was
\* not told to stop and whose signals are connected.
C2_AtMostOneActiveSession ==
    Cardinality({s \in DOMAIN workers :
                    /\ isRunning(workers[s])
                    /\ workers[s].is_running
                    /\ workers[s].connected}) <= 1

\* C3: the store gains an assistant message only when the finished_stream of a
\* session whose stream reached its natural end is handled, and the message
\* holds that session's complete text.
C3_OnlyCompleteStreamsPersisted ==
    [][GainsAssistantMessage =>
        /\ Handled("finished_stream")
        /\ workers[Head(queue).s].pc = "ended"
        /\ Last(conversations'[current_conversation_id].messages).content =
              workers[Head(queue).s].full_content]_vars

\* C4: when the finished_stream of a session is handled whose stream reached
\* its natural end, with no cancel, switch or close and no other send since it
\* was sent, exactly one assistant message is appended to its conversation
\* and it is the concatenation, in receipt order, of the deltas with content
\* that its worker received.
C4_CompletionAppendsAllDeltasInOrder ==
    [][(/\ undisturbed
        /\ Handled("finished_stream")
        /\ Head(queue).s = Len(workers)
        /\ workers[Head(queue).s].pc = "ended"
        /\ workers[Head(queue).s].full_content # <<>>)
       => conversations' =
            [conversations EXCEPT ![current_conversation_id].messages =
                Append(@, [role |-> "assistant",
                           content |-> workers[Head(queue).s].full_content])]]_vars

\* C5: when a stream completes with accumulated text that has an odd number of
\* fence markers, the assistant message appended to the store holds the
\* repaired text, closing fence included.
C5_StoredTextIsRepaired ==
    [][(/\ Handled("finished_stream")
        /\ request_conversation_id = current_conversation_id
        /\ current_ai_content # <<>>
        /\ has_unclosed_code_block(current_ai_content))
       => Last(conversations'[current_conversation_id].messages).content =
             finalize_content(current_ai_content)]_vars

\* C6: whenever the active conversation id changes, the coordinator is Idle in
\* the resulting state and no session is left active (running, not told to
\* stop, signals connected); and the coordinator is never armed for a
\* conversation other than the active one.
C6_IdleWhenActiveIdChanges ==
    /\ [](request_conversation_id \in {NoConv, current_conversation_id})
    /\ [][current_conversation_id' # current_conversation_id =>
            /\ request_conversation_id' = NoConv
            /\ current_ai_content' = <<>>
            /\ current_ai_widget' = NoWidget
            /\ \A s \in DOMAIN workers' :
                  ~(/\ isRunning(workers'[s])
                    /\ workers'[s].is_running
                    /\ workers'[s].connected)]_vars

\* C7 as stated: when a failure is handled while no text has arrived, the
\* placeholder leaves the view and the conversation has as many messages as
\* before send_message was called.
C7_CountAsBeforeSend ==
    [][(/\ ErrorHandlerEnds
        /\ current_ai_widget # NoWidget
        /\ current_ai_content = <<>>)
       => /\ view' = RemoveAt(view, current_ai_widget)
          /\ Len(conversations'[current_conversation_id].messages) =
                len_before_send]_vars

\* C7 amended: when a failure is handled while no text has arrived, the empty
\* placeholder leaves the view, the handler leaves the store alone, and the
\* conversation has one message more than before send_message was called:
\* the user message, which is its last.
C7_UserMessageStays ==
    [][(/\ ErrorHandlerEnds
        /\ current_ai_widget # NoWidget
        /\ current_ai_content = <<>>)
       => /\ view[current_ai_widget] = [role |-> "assistant", content |-> <<>>]
          /\ view' = RemoveAt(view, current_ai_widget)
          /\ conversations' = conversations
          /\ Len(conversations'[current_conversation_id].messages) =
                len_before_send + 1
          /\ Last(conversations'[current_conversation_id].messages).role =
                "user"]_vars

C7_Witness ==
    /\ \E s \in DOMAIN workers :
          /\ workers[s].pc = "failed"
          /\ workers[s].full_content = <<>>
          /\ s = api_worker
    /\ queue = <<>>
    /\ dialogs = 0
    /\ request_conversation_id = NoConv
    /\ view = <<[role |-> "user", content |-> <<"q">>]>>
    /\ Len(conversations[current_conversation_id].messages) = len_before_send + 1

\* C8: from the moment on_api_error takes a failure up until it returns, the
\* conversation map stays as it is, whether or not text had arrived and
\* whether or not the conversation has changed; and when it returns no
\* accumulated text is left that a later event could append.
C8_ErrorLeavesStoreAndDiscardsText ==
    [][/\ (Handled("error_occurred") \/ dialogs > 0) =>
            conversations' = conversations
       /\ ErrorHandlerEnds =>
            /\ current_ai_content' = <<>>
            /\ request_conversation_id' = NoConv]_vars

\* C9: at every step of a save, the history file holds the document it held
\* before the step or the complete new document.
C9_SaveIsCrashAtomic ==
    [][main_pc # Idle => history_file' \in {history_file, temp_file}]_vars

C11_CloseFlushesEverything ==
    closed => history_file = document(conversations)

\* C12: when the application starts with a history file that is missing, is
\* not valid JSON or carries another version tag than 1, the store afterwards
\* holds exactly one conversation, it is empty, and it is the active one.
C12_LoadFailureGivesFreshConversation ==
    [][(Restart /\ (history_file.kind # "doc" \/ history_file.version # 1))
       => /\ DOMAIN conversations' = {current_conversation_id'}
          /\ conversations'[current_conversation_id'].messages = <<>>
          /\ current_conversation_id' \notin DOMAIN conversations
          /\ view' = <<>>
          /\ request_conversation_id' = NoConv]_vars

C12_Witness ==
    /\ ~closed
    /\ workers = <<>>
    /\ history_file.kind = "doc"
    /\ history_file.version = OtherVersion
    /\ DOMAIN history_file.conversations # {}
    /\ DOMAIN conversations = {current_conversation_id}
    /\ current_conversation_id \notin DOMAIN history_file.conversations
    /\ conversations[current_conversation_id].messages = <<>>

\* The settings the validation is to refuse: a blank API key, a blank base
\* URL or one without scheme or without host, a blank model.
InvalidSettings(st) ==
    \/ strip(st.api_key) = <<>>
    \/ strip(st.base_url) = <<>>
    \/ url_scheme(strip(st.base_url)) = <<>>
    \/ url_netloc(strip(st.base_url)) = <<>>
    \/ strip(st.model) = <<>>

\* C13: while the settings are invalid no step starts a worker, appends a user
\* message, changes a title or arms the coordinator, and the send_message
\* call that ends in the settings warning leaves the store, the workers, the
\* coordinator, the view and the typed input as they are.
C13_InvalidSettingsBlockSend ==
    [][InvalidSettings(settings) =>
        /\ Len(workers') = Len(workers)
        /\ \A c \in DOMAIN conversations :
              /\ conversations'[c].title = conversations[c].title
              /\ Len(conversations'[c].messages) > Len(conversations[c].messages)
                    => Last(conversations'[c].messages).role = "assistant"
        /\ request_conversation_id' \in {request_conversation_id, NoConv}
        /\ (config_warning' /\ ~config_warning) =>
              UNCHANGED <<conversations, workers, api_worker,
                          request_conversation_id, current_ai_content,
                          current_ai_widget, view, input_edit, send_enabled,
                          queue, save_timer>>]_vars

C13_Witness ==
    /\ config_warning
    /\ input_edit = <<"q">>
    /\ settings.base_url = <<"s", ":", "h">>
    /\ workers = <<>>
    /\ conversations[current_conversation_id].messages = <<>>
    /\ request_conversation_id = NoConv

\* C14: a worker whose stop() has been called puts no further stream_chunk
\* into the queue.
C14_NoChunkAfterStop ==
    [][(Len(queue') > Len(queue) /\ Last(queue').sig = "stream_chunk")
       => workers[Last(queue').s].is_running]_vars

\* C15: the title of a conversation becomes the text of its first user
\* message, cut to 20 characters and "..." if it is longer; later messages
\* leave the title alone; and a title the user gave with rename_conversation
\* is changed by nothing but another rename.
C15_TitleFromFirstMessageUnlessRenamed ==
    [][~Restart =>
        \A c \in DOMAIN conversations \cap DOMAIN conversations' :
            LET old == conversations[c]
                new == conversations'[c]
            IN  /\ old.title \in RenameTitles => new.title \in RenameTitles
                /\ (old.messages = <<>> /\ new.messages # <<>>
                      /\ old.title \notin RenameTitles) =>
                      new.title =
                        IF Len(new.messages[1].content) <= 20
                        THEN new.messages[1].content
                        ELSE SubSeq(new.messages[1].content, 1, 20)
                               \o <<".", ".", ".">>
                /\ (old.messages # <<>> /\ new.title # old.title) =>
                      new.title \in RenameTitles]_vars

\* The number of items of a layout or of spans that satisfy a test.
MarkerSpans(html) == {k \in DOMAIN html : html[k].span = "marker"}
CodeSegments(segments) == {k \in DOMAIN segments : segments[k].type = "code"}

\* C16: while an answer is streaming, whatever text has accumulated, the
\* widget shows one text segment, in which every triple-backtick marker of
\* the text is shown as the marker itself, and no code block.
C16_LiveRenderingHasNoCodeBlock ==
    widget.mode = "live" =>
        /\ Len(widget.layout) = 1
        /\ widget.layout[1].type = "text"
        /\ Cardinality(MarkerSpans(widget.layout[1].html))
             = CountFrom(strip(widget.content), 1)
        /\ \A k \in MarkerSpans(widget.layout[1].html) :
              widget.layout[1].html[k].text = Fence

\* A streaming answer whose text holds a complete fenced block with a body.
C16_Witness ==
    /\ widget.mode = "live"
    /\ widget.cached_text_browser
    /\ CodeSegments(split_content(widget.content)) # {}
    /\ CodeSegments(widget.layout) = {}

\* Position of the last marker that str.count counts in t from i on, or last.
RECURSIVE LastFenceFrom(_, _, _)
LastFenceFrom(t, i, last) ==
    IF i + 2 > Len(t) THEN last
    ELSE IF SubSeq(t, i, i + 2) = Fence THEN LastFenceFrom(t, i + 3, i)
    ELSE LastFenceFrom(t, i + 1, last)

\* What follows the line of the last marker of t.
AfterLastOpening(t) ==
    LET f == LastFenceFrom(t, 1, 0)
        nl == FindChar(t, NL, f + 3)
    IN  IF nl = 0 THEN <<>> ELSE SubSeq(t, nl + 1, Len(t))

\* C17: when the text of a finished answer has an odd number of markers, the
\* segments of the repaired text end with a code segment, and its body is
\* what followed the line of the last marker (with or without the newline
\* that the repair puts before the closing marker).
C17_OddMarkersEndInCodeSegment ==
    (widget.mode = "final" /\ has_unclosed_code_block(widget.given)) =>
        LET segments == split_content(widget.content)
            last == segments[Len(segments)]
        IN  /\ last.type = "code"
            /\ last.content \in {AfterLastOpening(widget.given),
                                  AfterLastOpening(widget.given) \o <<NL>>}

\* A text without its whitespace characters.
RECURSIVE WithoutWhitespace(_)
WithoutWhitespace(t) ==
    IF t = <<>> THEN <<>>
    ELSE IF Head(t) \in Whitespace THEN WithoutWhitespace(Tail(t))
    ELSE <<Head(t)>> \o WithoutWhitespace(Tail(t))

\* The segments written out again, in order: a text segment as it is, a code
\* segment as marker, language, newline, body, marker. A block that had no
\* language line is written without one.
RECURSIVE Rewrapped(_)
Rewrapped(segments) ==
    IF segments = <<>> THEN <<>>
    ELSE LET segment == Head(segments)
             one == IF segment.type = "code"
                    THEN Fence
                         \o (IF segment.language = DefaultLanguage THEN <<>>
                             ELSE segment.language)
                         \o <<NL>> \o segment.content \o Fence
                    ELSE segment.content
         IN  one \o Rewrapped(Tail(segments))

\* C18: when the text of a finished answer has an even number of markers,
\* its segments written out again give the text back, whitespace aside: no
\* other character is lost, added or moved.
C18_EvenMarkersRoundTrip ==
    (widget.mode = "final" /\ ~has_unclosed_code_block(widget.given)) =>
        WithoutWhitespace(Rewrapped(split_content(widget.content)))
          = WithoutWhitespace(widget.given)

\* t is one unterminated fenced block: a marker, a language, a newline and
\* a body, with no other backtick.
UnterminatedBlock(t) ==
    /\ Len(t) >= 3 /\ SubSeq(t, 1, 3) = Fence
    /\ \A k \in 4..Len(t) : t[k] # BT
    /\ FindChar(t, NL, 4) # 0
    /\ strip(SubSeq(t, 4, FindChar(t, NL, 4) - 1)) # <<>>
    /\ strip(AfterLastOpening(t)) # <<>>

\* C19: a stored message that is one unterminated fenced block is shown as
\* exactly one code block with the language and the body of the block and no
\* text, which is also what finalize_content shows for the same text.
C19_StoredUnterminatedBlockIsCode ==
    (widget.mode = "stored" /\ UnterminatedBlock(widget.given)) =>
        /\ Len(widget.layout) = 1
        /\ widget.layout[1].type = "code"
        /\ widget.layout[1].language
             = strip(SubSeq(widget.given, 4, FindChar(widget.given, NL, 4) - 1))
        /\ strip(widget.layout[1].content) = strip(AfterLastOpening(widget.given))
        /\ widget.layout = parse_content(finalize_content(widget.given))

\* C20: a session that stop() was called on before its stream ended emits
\* neither finished_stream nor error_occurred afterwards: its run() does not
\* reach the emit after the loop or the one of the except clause.
C20_CancelledSessionEmitsNoEnd ==
    [][\A s \in DOMAIN workers \cap DOMAIN workers' :
          (~workers[s].is_running /\ workers[s].pc \in {"start", "loop", "emit"})
            => workers'[s].pc \notin {"stopped", "ended", "failed"}]_vars

\* What worker s emits into the queue in this step.
EmittedBy(s) ==
    IF Len(queue') > Len(queue)
    THEN SelectSeq(SubSeq(queue', Len(queue) + 1, Len(queue')),
                   LAMBDA e : e.s = s)
    ELSE <<>>

TerminalSignals == {"finished_stream", "error_occurred"}

NoSessionLeft ==
    /\ request_conversation_id' = NoConv
    /\ current_ai_content' = <<>>
    /\ api_worker' = NoWorker

\* C22: a step that ends a session, the slot of its finished_stream in the
\* conversation it belongs to, the end of the slot of its error_occurred, or
\* the stop() of a cancellation, leaves the coordinator Idle with no request
\* id, no accumulated text and no api_worker, and the session's signals
\* disconnected.
C22_EndedSessionLeavesNoReference ==
    [][/\ (Handled("finished_stream")
            /\ request_conversation_id = current_conversation_id)
          => (NoSessionLeft /\ ~workers'[Head(queue).s].connected)
       /\ ErrorHandlerEnds
          => (NoSessionLeft
              /\ \A s \in DOMAIN workers' :
                    workers'[s].pc = "failed" => ~workers'[s].connected)
       /\ \A s \in DOMAIN workers \cap DOMAIN workers' :
            (workers[s].is_running /\ ~workers'[s].is_running)
              => (NoSessionLeft /\ ~workers'[s].connected)]_vars

IsPrefix(a, b) == Len(a) <= Len(b) /\ SubSeq(b, 1, Len(a)) = a

\* C23: the slot of stream_chunk changes nothing unless the request id is the
\* active conversation, and then appends exactly the delta; while the
\* session that send_message started is neither ended nor cancelled the
\* accumulated text only grows, and it holds deltas of that session only:
\* it is a prefix of what the session's worker has read.
C23_AccumulatedTextGrowsFromOwnDeltas ==
    [][/\ Handled("stream_chunk") =>
            IF request_conversation_id # current_conversation_id
            THEN UNCHANGED <<conversations, request_conversation_id,
                             current_ai_content, current_ai_widget, view,
                             send_enabled, api_worker>>
            ELSE current_ai_content' = current_ai_content \o Head(queue).arg
       /\ (/\ api_worker # NoWorker
           /\ isRunning(workers[api_worker])
           /\ workers[api_worker].is_running
           /\ workers' # <<>>) =>
            /\ IsPrefix(current_ai_content, current_ai_content')
            /\ IsPrefix(current_ai_content',
                        workers'[api_worker].full_content)]_vars

\* C24: when the slot of finished_stream runs for the active conversation
\* with no accumulated text, the store is left as it is (the message list is
\* the one send_message left) and the coordinator is Idle again: no request
\* id, no text, the send button enabled.
C24_EmptyCompletionAppendsNothing ==
    [][(/\ Handled("finished_stream")
        /\ request_conversation_id = current_conversation_id
        /\ current_ai_content = <<>>)
       => /\ conversations' = conversations
          /\ request_conversation_id' = NoConv
          /\ current_ai_content' = <<>>
          /\ current_ai_widget' = NoWidget
          /\ send_enabled']_vars

\* The only session has completed without a chunk and its finished_stream
\* has been handled: the conversation holds the user message alone.
C24_Witness ==
    /\ Len(workers) = 1
    /\ workers[1].pc = "ended"
    /\ workers[1].nchunks = 0
    /\ workers[1].connected
    /\ undisturbed
    /\ queue = <<>>
    /\ request_conversation_id = NoConv
    /\ send_enabled
    /\ Len(conversations[current_conversation_id].messages) = 1
    /\ Last(conversations[current_conversation_id].messages).role = "user"

C26_RepairMakesEvenAndIsIdempotent ==
    widget.mode = "final" =>
        /\ ~has_unclosed_code_block(widget.content)
        /\ ~has_unclosed_code_block(widget.given)
              => widget.content = widget.given
        /\ finalize_content(widget.content) = widget.content

\* A finalized answer whose text had an odd number of markers and ended in
\* a backtick: the repair has added a newline and a marker.
C26_Witness ==
    /\ widget.mode = "final"
    /\ has_unclosed_code_block(widget.given)
    /\ Last(widget.given) = BT
    /\ widget.content = widget.given \o <<NL>> \o Fence

\* C27: within a run of the program, a step that keeps a conversation keeps
\* its messages and can only add to their end.
C27_MessageListsAppendOnly ==
    [][~Restart =>
        \A c \in DOMAIN conversations \cap DOMAIN conversations' :
            IsPrefix(conversations[c].messages, conversations'[c].messages)]_vars

\* A conversation that holds a question and its answer has been renamed, and
\* another conversation exists beside it.
C27_Witness ==
    \E c \in DOMAIN conversations :
        /\ Len(conversations[c].messages) = 2
        /\ conversations[c].messages[2].role = "assistant"
        /\ conversations[c].title \in RenameTitles
        /\ DOMAIN conversations # {c}
        /\ ~closed

\* C28: between the handlers, the active conversation is an entry of the
\* store, whatever was loaded, created, switched to, deleted or cleared.
C28_ActiveConversationExists ==
    current_conversation_id \in DOMAIN conversations

\* Two conversations were created and one of them has been deleted: the
\* one that is left is the active one.
C28_Witness ==
    /\ ~closed
    /\ next_id = 3
    /\ Cardinality(DOMAIN conversations) = 1
    /\ current_conversation_id \in DOMAIN conversations
    /\ save_timer

\* Position of the n-th user message of a list, or 0.
RECURSIVE NthUserMessage(_, _, _)
NthUserMessage(msgs, n, i) ==
    IF i > Len(msgs) THEN 0
    ELSE IF msgs[i].role = "user"
         THEN IF n = 1 THEN i ELSE NthUserMessage(msgs, n - 1, i + 1)
         ELSE NthUserMessage(msgs, n, i + 1)

\* The list as send_message left it when it started worker s: in a single
\* conversation the s-th send appended the s-th user message as the last one.
ListAtSend(s) ==
    SubSeq(conversations[workers[s].conv].messages, 1,
           NthUserMessage(conversations[workers[s].conv].messages, s, 1))

\* C29: when a worker opens its stream, the messages it transmits after the
\* system instruction are the conversation's messages as they were when
\* send_message started it.
C29_RequestIsListAtSend ==
    [][\A s \in DOMAIN workers \cap DOMAIN workers' :
          (workers[s].pc = "start" /\ workers'[s].pc = "loop")
            => user_messages(s) = ListAtSend(s)]_vars

\* C30: while the window is open and no write is running, the history file
\* holds the conversation map as it is, or the save timer is pending.
C30_EveryChangeIsScheduled ==
    (~closed /\ main_pc = Idle) =>
        (save_timer \/ history_file = document(conversations))

====
